---- MODULE Spec2Model ----
(***************************************************************************)
(* Background-job coordination of the kitsu backend: the JobRunner         *)
(* (app/background/runner.py) with its Redis status entries and global     *)
(* running-job counter, and the parser autoupdate scheduler                *)
(* (app/parser/jobs/autoupdate.py) with its Redis lock.                    *)
(*                                                                         *)
(* Every `await` of the code is a step of its own; a store call either     *)
(* takes effect and returns, or raises a store error without effect (the   *)
(* store is unreachable).  task.cancel() delivers CancelledError at the    *)
(* await the task is suspended in.                                         *)
(*                                                                         *)
(* The lock key's TTL is counted in seconds and time passes in periods of  *)
(* the extension loop (SCHEDULER_LOCK_TTL / 2): a start() or stop() call   *)
(* and a due extension complete within the period they began in.           *)
(*                                                                         *)
(* The login rate limiter (app/application/auth_rate_limit.py) with the    *)
(* counter primitives of RedisClient (app/infrastructure/redis.py) and the *)
(* login use case (app/use_cases/auth/login_user.py).  A counter's TTL is  *)
(* counted in seconds and time passes in half windows.                     *)
(***************************************************************************)
EXTENDS Integers, Sequences, FiniteSets, TLC

\* ---------------------------------------------------------------- bounds
\* Runner processes sharing one store.
NumRunners == 2
\* Distinct job keys.
NumKeys == 1
\* Distinct job keys where the order of the pending jobs is followed.
NumOrderKeys == 2
\* max_attempts of the jobs that are enqueued (Job.max_attempts, default 3).
MaxAttempts == 2
\* MAX_RUNNING_JOBS is 20 in runner.py:17.  The admission script takes the
\* ceiling as its argument; the model runs it at this scaled ceiling.
MAX_RUNNING_JOBS == 1

\* Scheduler instances (one per worker process) sharing the lock key.
NumScheds == 2
\* Processes calling the lock primitives directly.
NumProcs == 3
\* Concurrent login_user calls.
NumCallers == 2
\* The value up to which a rate-limit counter is followed.
MaxCount == 6
\* Extension loops one instance may leave running unreferenced.
MaxOrphans == 1

Runners == 1..NumRunners
Keys == 1..NumKeys
OrderKeys == 1..NumOrderKeys
Scheds == 1..NumScheds
Procs == 1..NumProcs
Callers == 1..NumCallers

\* ------------------------------------------------------- program constants
\* max_retries of the decrement loop in the finally block of _run_job.
max_retries == 3

\* The lock TTL in seconds, and the sleep of the extension loop,
\* SCHEDULER_LOCK_TTL / 2.
SCHEDULER_LOCK_TTL == 90
ExtendPeriod == SCHEDULER_LOCK_TTL \div 2

\* The limits of auth_rate_limiter, and the half window by which time passes.
AUTH_RATE_LIMIT_MAX_ATTEMPTS == 5
AUTH_RATE_LIMIT_WINDOW_SECONDS == 60
WindowPeriod == AUTH_RATE_LIMIT_WINDOW_SECONDS \div 2

Criticalities == {"critical", "important", "best_effort"}

\* JobStatus, plus "absent" for a status key that does not exist in the store.
QUEUED == "queued"
RUNNING == "running"
SUCCEEDED == "succeeded"
FAILED == "failed"
ABSENT == "absent"
JobStatus == {QUEUED, RUNNING, SUCCEEDED, FAILED}

\* The Job dataclass (handler and backoff_seconds carry no coordination state).
Job(k, c) == [key |-> k, criticality |-> c, attempts |-> 0, max_attempts |-> MaxAttempts]
\* Job values of the dataclass, which checks no field: max_attempts 0 as well
\* as MaxAttempts, attempts 0.
JobValues ==
    {[key |-> k, criticality |-> c, attempts |-> 0, max_attempts |-> m] :
        k \in Keys, c \in Criticalities, m \in {0, MaxAttempts}}
NoJob == [key |-> 0, criticality |-> "none", attempts |-> 0, max_attempts |-> 0]

\* Emails a login is attempted with, two of them spellings of one address,
\* and the client addresses they come from (NoIp: client_ip is None).
Emails == {"User@example.com", "user@example.com", "other@example.com"}
NoIp == "none"
Ips == {"1.2.3.1", "1.2.3.2"}
Scopes == {"login", "refresh"}

\* str.lower() on the emails.
Lower(email) == IF email = "User@example.com" THEN "user@example.com" ELSE email

\* hashlib.sha256(identifier.encode()).hexdigest(): one digest per identifier,
\* of which IDENTIFIER_HASH_LENGTH = 64 characters, all of it, are kept.
Sha256(identifier) == <<"sha256", identifier>>

\* _make_key for a non-empty identifier: scope, the client address or its
\* fallback from the digest, and the digest.
MakeKey(scope, identifier, client_ip) ==
    [scope |-> scope,
     ip |-> IF client_ip = NoIp THEN "unknown-ip-" \o identifier ELSE client_ip,
     id |-> Sha256(identifier)]

\* The keys of check_login_rate_limit and of check_refresh_rate_limit.
LoginKey(email, client_ip) == MakeKey("login", Lower(email), client_ip)
RefreshKey(token_identifier, client_ip) == MakeKey("refresh", token_identifier, client_ip)

\* The ratelimit:<key> counters of the store that are followed.
RateKeys == {MakeKey(scope, id, ip) : scope \in Scopes, id \in Emails, ip \in Ips}

\* No limiter operation called yet.
NoKey == [scope |-> "none", ip |-> "none", id |-> Sha256("none")]
NoCall == [op |-> "none", key |-> NoKey, result |-> FALSE]

\* No status_for and no refused enqueue yet.
NoReply == [runner |-> 0, op |-> "none", result |-> "none"]

\* No lock primitive called yet.
NoOp == [proc |-> 0, op |-> "none", result |-> FALSE]

\* Update intervals the parser settings may hold, in minutes.
Intervals == {30, 60}

\* No run_once call yet.
NoRun == [inst |-> 0, enable_autoupdate |-> FALSE, force |-> FALSE, interval |-> 0,
          status |-> "none", interval_minutes |-> 0, service_runs |-> 0]

VARIABLES
    storeUp,             \* the store is reachable
    status,              \* job:status:<key> in the store
    counter,             \* counter:global_jobs in the store (a missing key reads 0)
    redisConn,           \* JobRunner._redis: "none" | "set"
    redis_available,     \* JobRunner._redis_available
    jobs,                \* JobRunner._jobs: the pending dict, in insertion order
    task,                \* JobRunner._task: "none" | "alive" | "cancelling"
    enq,                 \* the enqueue call suspended between GET and SET NX
    pc,                  \* where the worker task is suspended
    cur,                 \* the job _run_job is handling
    running_incremented, \* _run_job's local flag
    invocations,         \* calls of cur's handler made by this _run_job
    decAttempt,          \* `attempt` of the decrement loop
    held,                \* increments less decrements this _run_job made on the counter
    draining,            \* a drain() call on the runner has not returned
    lastReply,           \* the last status_for or refused enqueue call: runner and answer
    lockTtl,             \* seconds the scheduler lock key has left; 0: no such key
    grants,              \* acquisitions granted since the lock key last did not exist
    schedConn,           \* ParserAutoupdateScheduler._redis: "none" | "set"
    schedTask,           \* ParserAutoupdateScheduler._task: "none", or the task's state:
                         \* "active" | "done" (cancelled) | "failed" (ended by an exception)
    extTask,             \* ParserAutoupdateScheduler._lock_extend_task: "none" | "active" | "done"
    orphans,             \* extension loops still running that _lock_extend_task no longer names
    orphanDue,           \* how many of them have slept their period
    schedLock,           \* ParserAutoupdateScheduler._lock is not None
    schedPc,             \* the start() or stop() call in progress: "idle" | "acquire" | "release"
    extDue,              \* the sleep of the extension loop has elapsed
    cycled,              \* an update cycle was run since the last start() call
    startResult,         \* what acquire() returned to the last start() call
    spawned,             \* tasks the last start() call created
    raced,               \* every instance was inside start() at once, the lock free
    lastRun,             \* the last run_once call: its instance, inputs and result
    holder,              \* the process whose try_acquire_lock set the key now there, 0 if none
    everAcquired,        \* the processes whose try_acquire_lock has returned true
    lastOp,              \* the last call of a lock primitive: process, primitive, return value
    rlCount,             \* ratelimit:<key> in the store (a missing key reads 0)
    rlTtl,               \* seconds the counter key has left; 0: no such key, or no expiry
    winFails,            \* record_failure calls on the key since its window began
    winAge,              \* seconds since the first of them
    lastCall,            \* the last limiter operation: its key and return value
    loginKey,            \* the key of the login_user call past its rate check, or NoKey
    loginResult          \* how the caller's last login_user call ended; "pending": not yet

runnerVars == <<status, counter, redisConn, redis_available, jobs, task,
                enq, pc, cur, running_incremented, invocations, decAttempt, held,
                draining, lastReply>>

schedVars == <<lockTtl, grants, schedConn, schedTask, extTask, orphans, orphanDue,
               schedLock, schedPc, extDue, cycled, startResult, spawned, raced,
               lastRun, holder, everAcquired, lastOp>>

\* What the direct callers of RedisClient's lock primitives have done.
lockCallVars == <<holder, everAcquired, lastOp>>

rateVars == <<rlCount, rlTtl, winFails, winAge, lastCall, loginKey, loginResult>>

vars == <<storeUp, runnerVars, schedVars, rateVars>>

\* ------------------------------------------------------------ store script
\* The script with `current > max_limit` for its comparison.
CHECK_AND_INCR_SCRIPT_OffByOne(current, max_limit) ==
    IF current > max_limit
    THEN [result |-> 0, value |-> current]
    ELSE [result |-> 1, value |-> current + 1]

\* The script with the INCR ahead of the comparison.
CHECK_AND_INCR_SCRIPT_IncrFirst(current, max_limit) ==
    IF current >= max_limit
    THEN [result |-> 0, value |-> current + 1]
    ELSE [result |-> 1, value |-> current + 1]

\* CHECK_AND_INCR_SCRIPT: 0 when current >= max_limit, else INCR and 1.
CHECK_AND_INCR_SCRIPT(current, max_limit) ==
    IF current >= max_limit
    THEN [result |-> 0, value |-> current]
    ELSE [result |-> 1, value |-> current + 1]

\* SET without NX: the key is written whatever it holds.
SetNx_Overwrite(old, value) == [was_set |-> TRUE, value |-> value]

\* redis.set(key, value, nx=True): writes only an absent key.
SetNx(old, value) ==
    IF old = ABSENT THEN [was_set |-> TRUE, value |-> value]
                    ELSE [was_set |-> FALSE, value |-> old]

\* self._jobs[job.key] = job: a key already in the dict keeps its place.
DictPut(d, job) ==
    IF \E i \in 1..Len(d) : d[i].key = job.key
    THEN [i \in 1..Len(d) |-> IF d[i].key = job.key THEN job ELSE d[i]]
    ELSE Append(d, job)

\* Statuses that make enqueue skip the job as a duplicate.
Blocking == {QUEUED, RUNNING, SUCCEEDED}

\* ------------------------------------------------------------------- Init
Init ==
    /\ storeUp = TRUE
    /\ status = [k \in Keys \cup OrderKeys |-> ABSENT]
    /\ counter = 0
    /\ redisConn = [r \in Runners |-> "none"]
    /\ redis_available = [r \in Runners |-> TRUE]
    /\ jobs = [r \in Runners |-> <<>>]
    /\ task = [r \in Runners |-> "none"]
    /\ enq = [r \in Runners |-> NoJob]
    /\ pc = [r \in Runners |-> "idle"]
    /\ cur = [r \in Runners |-> NoJob]
    /\ running_incremented = [r \in Runners |-> FALSE]
    /\ invocations = [r \in Runners |-> 0]
    /\ decAttempt = [r \in Runners |-> 0]
    /\ held = [r \in Runners |-> 0]
    /\ draining = [r \in Runners |-> FALSE]
    /\ lastReply = NoReply
    /\ lockTtl = 0
    /\ grants = 0
    /\ schedConn = [i \in Scheds |-> "none"]
    /\ schedTask = [i \in Scheds |-> "none"]
    /\ extTask = [i \in Scheds |-> "none"]
    /\ orphans = [i \in Scheds |-> 0]
    /\ orphanDue = [i \in Scheds |-> 0]
    /\ spawned = [i \in Scheds |-> 0]
    /\ schedLock = [i \in Scheds |-> FALSE]
    /\ schedPc = [i \in Scheds |-> "idle"]
    /\ extDue = [i \in Scheds |-> FALSE]
    /\ cycled = [i \in Scheds |-> FALSE]
    /\ startResult = [i \in Scheds |-> "none"]
    /\ raced = FALSE
    /\ lastRun = NoRun
    /\ holder = 0
    /\ everAcquired = {}
    /\ lastOp = NoOp
    /\ rlCount = [k \in RateKeys |-> 0]
    /\ rlTtl = [k \in RateKeys |-> 0]
    /\ winFails = [k \in RateKeys |-> 0]
    /\ winAge = [k \in RateKeys |-> 0]
    /\ lastCall = NoCall
    /\ loginKey = [c \in Callers |-> NoKey]
    /\ loginResult = [c \in Callers |-> "none"]

\* ---------------------------------------------------------------- enqueue
\* enqueue and status_for going on whatever the flag says.
Available_Always(r) == TRUE

\* `if not self._redis_available:` of enqueue and of status_for.
Available(r) == redis_available[r]

\* _ensure_redis: the client is created and pinged on first use; the handle is
\* assigned before the ping, so a failed ping leaves it set.
EnsureRedis(r) ==
    /\ redisConn' = [redisConn EXCEPT ![r] = "set"]
    /\ redis_available' =
         IF redisConn[r] = "none"
         THEN [redis_available EXCEPT ![r] = storeUp]
         ELSE redis_available

\* _ensure_worker: a task is created when there is none (or it is done).
EnsureWorker(t) == IF t = "none" THEN "alive" ELSE t

\* The duplicate check of enqueue on the value its GET returned.
IsDuplicate(current_status) == current_status \in Blocking

\* enqueue from its SET NX on: the winner records the job in self._jobs and
\* ensures the worker; a loser, or a store error, records nothing.
ClaimJob(r, job) ==
    LET w == SetNx(status[job.key], QUEUED)
    IN IF storeUp /\ w.was_set
       THEN /\ status' = [status EXCEPT ![job.key] = w.value]
            /\ jobs' = [jobs EXCEPT ![r] = DictPut(@, job)]
            /\ task' = [task EXCEPT ![r] = EnsureWorker(@)]
       ELSE UNCHANGED <<status, jobs, task>>

\* enqueue(job) as one step: the _redis_available guard, _ensure_redis, the
\* GET with the duplicate check, and the SET NX.
EnqueueJob(r, job) ==
    /\ UNCHANGED <<schedVars, rateVars, draining, lastReply>>
    /\ enq[r] = NoJob
    /\ Available(r)
    /\ EnsureRedis(r)
    /\ IF storeUp /\ ~IsDuplicate(status[job.key])
       THEN ClaimJob(r, job)
       ELSE UNCHANGED <<status, jobs, task>>
    /\ UNCHANGED <<storeUp, counter, enq, pc, cur,
                   running_incremented, invocations, decAttempt, held>>

\* enqueue(job) on a runner whose _redis_available is false: the error is
\* logged and the job returned.
EnqueueRefused(r, k, c) ==
    /\ ~Available(r)
    /\ lastReply' = [runner |-> r, op |-> "enqueue", result |-> "refused"]
    /\ UNCHANGED <<storeUp, schedVars, rateVars, status, counter, redisConn,
                   redis_available, jobs, task, enq, pc, cur, running_incremented,
                   invocations, decAttempt, held, draining>>

\* status_for(key): None (absent) when _redis_available is false, when the
\* first ping or the GET raises, or when the key does not exist.
StatusFor(r, k) ==
    /\ IF Available(r)
       THEN /\ EnsureRedis(r)
            /\ lastReply' = [runner |-> r, op |-> "status_for",
                             result |-> IF storeUp THEN status[k] ELSE ABSENT]
       ELSE /\ lastReply' = [runner |-> r, op |-> "status_for", result |-> ABSENT]
            /\ UNCHANGED <<redisConn, redis_available>>
    /\ UNCHANGED <<storeUp, schedVars, rateVars, status, counter, jobs, task, enq, pc, cur,
                   running_incremented, invocations, decAttempt, held, draining>>

\* enqueue of a fresh job with max_attempts = MaxAttempts.
Enqueue(r, k, c) == EnqueueJob(r, Job(k, c))

\* enqueue of any job value.
EnqueueAny(r, job) == EnqueueJob(r, job)

\* enqueue in two steps, as its awaits split it.  First up to the GET; the
\* call then waits for its SET NX, holding self._lock.
EnqueueGet(r, k, c) ==
    /\ UNCHANGED <<schedVars, rateVars, draining, lastReply>>
    /\ enq[r] = NoJob
    /\ Available(r)
    /\ EnsureRedis(r)
    /\ enq' = IF storeUp /\ ~IsDuplicate(status[k])
              THEN [enq EXCEPT ![r] = Job(k, c)]
              ELSE enq
    /\ UNCHANGED <<storeUp, status, counter, jobs, task, pc, cur,
                   running_incremented, invocations, decAttempt, held>>

\* Then the SET NX and what follows it.
EnqueueSetNx(r) ==
    /\ UNCHANGED <<schedVars, rateVars, draining, lastReply>>
    /\ enq[r] # NoJob
    /\ enq' = [enq EXCEPT ![r] = NoJob]
    /\ ClaimJob(r, enq[r])
    /\ UNCHANGED <<storeUp, counter, redisConn, redis_available, pc, cur,
                   running_incremented, invocations, decAttempt, held>>

\* ----------------------------------------------------------------- worker
\* Every job runs the admission check.
ChecksBackpressure_All(c) == TRUE

\* `if criticality != "critical"`: the jobs that run the admission check.
ChecksBackpressure(c) == c # "critical"

\* `while job.attempts < job.max_attempts`.
MayAttempt(job) == job.attempts < job.max_attempts

\* The exhaustion test with `>` for its comparison.
Exhausted_Late(attempts, max_attempts) == attempts > max_attempts

\* `if job.attempts >= job.max_attempts` after a failed attempt.
Exhausted(attempts, max_attempts) == attempts >= max_attempts

\* The finally block decrementing for every job.
MustDecrement_Always(r) == TRUE

\* `if running_incremented` of the finally block.
MustDecrement(r) == running_incremented[r]

\* _run_job is over: the worker loop goes on, or the task ends when it was
\* cancelled (stop() then sets self._task = None).
EndRunJob(r, cancelled) ==
    /\ pc' = [pc EXCEPT ![r] = "idle"]
    /\ cur' = [cur EXCEPT ![r] = NoJob]
    /\ running_incremented' = [running_incremented EXCEPT ![r] = FALSE]
    /\ invocations' = [invocations EXCEPT ![r] = 0]
    /\ decAttempt' = [decAttempt EXCEPT ![r] = 0]
    /\ held' = [held EXCEPT ![r] = 0]
    /\ task' = [task EXCEPT ![r] = IF cancelled \/ @ = "cancelling" THEN "none" ELSE @]

\* Control reaches the finally block of _run_job with cur[r] (its attempts
\* given) from a return, a store error or a CancelledError.
Finally(r, attempts, cancelled) ==
    IF MustDecrement(r)
    THEN /\ pc' = [pc EXCEPT ![r] = "decr"]
         /\ cur' = [cur EXCEPT ![r].attempts = attempts]
         /\ decAttempt' = [decAttempt EXCEPT ![r] = 0]
         /\ task' = [task EXCEPT ![r] = IF cancelled THEN "cancelling" ELSE @]
         /\ UNCHANGED <<running_incremented, invocations, held>>
    ELSE EndRunJob(r, cancelled)

\* _worker pops the first pending job and _run_job starts: _ensure_redis
\* returns the handle enqueue set, and the job goes to the admission check or,
\* when critical, straight to the write of status running.
WorkerPop(r) ==
    /\ UNCHANGED <<schedVars, rateVars, draining, lastReply>>
    /\ task[r] = "alive"
    /\ pc[r] = "idle"
    /\ jobs[r] # <<>>
    /\ jobs' = [jobs EXCEPT ![r] = Tail(@)]
    /\ cur' = [cur EXCEPT ![r] = Head(jobs[r])]
    /\ running_incremented' = [running_incremented EXCEPT ![r] = FALSE]
    /\ pc' = [pc EXCEPT ![r] =
               IF ChecksBackpressure(Head(jobs[r]).criticality)
               THEN "check_incr" ELSE "set_running"]
    /\ UNCHANGED <<storeUp, status, counter, redisConn, redis_available, task, enq,
                   invocations, decAttempt, held>>

\* The atomic check-and-increment.  A store error is caught by the inner
\* except: the job is dropped or rejected and _run_job returns.
CheckAndIncr(r) ==
    /\ UNCHANGED <<schedVars, rateVars, draining, lastReply>>
    /\ pc[r] = "check_incr"
    /\ IF storeUp
       THEN LET s == CHECK_AND_INCR_SCRIPT(counter, MAX_RUNNING_JOBS)
            IN /\ counter' = s.value
               /\ IF s.result = 0
                  THEN /\ pc' = [pc EXCEPT ![r] = "set_dropped"]
                       /\ UNCHANGED <<running_incremented, held>>
                  ELSE /\ pc' = [pc EXCEPT ![r] = "set_running"]
                       /\ running_incremented' = [running_incremented EXCEPT ![r] = TRUE]
                       /\ held' = [held EXCEPT ![r] = @ + (s.value - counter)]
               /\ UNCHANGED <<cur, invocations, decAttempt, task>>
       ELSE /\ Finally(r, cur[r].attempts, FALSE)
            /\ UNCHANGED counter
    /\ UNCHANGED <<storeUp, status, redisConn, redis_available, jobs, enq>>

\* Limit exceeded: status failed is written (a store error here is caught by
\* the inner except as well) and _run_job returns.
SetDropped(r) ==
    /\ UNCHANGED <<schedVars, rateVars, draining, lastReply>>
    /\ pc[r] = "set_dropped"
    /\ status' = IF storeUp THEN [status EXCEPT ![cur[r].key] = FAILED] ELSE status
    /\ Finally(r, cur[r].attempts, FALSE)
    /\ UNCHANGED <<storeUp, counter, redisConn, redis_available, jobs, enq>>

\* The handler is called: `await job.handler()`.
Invoke(r, attempts) ==
    /\ pc' = [pc EXCEPT ![r] = "handler"]
    /\ cur' = [cur EXCEPT ![r].attempts = attempts]
    /\ invocations' = [invocations EXCEPT ![r] = @ + 1]
    /\ UNCHANGED <<running_incremented, decAttempt, held, task>>

\* Status running is written and the retry loop is entered; a store error
\* goes to the outer except.
SetRunning(r) ==
    /\ UNCHANGED <<schedVars, rateVars, draining, lastReply>>
    /\ pc[r] = "set_running"
    /\ IF storeUp
       THEN /\ status' = [status EXCEPT ![cur[r].key] = RUNNING]
            /\ IF MayAttempt(cur[r])
               THEN Invoke(r, cur[r].attempts)
               ELSE Finally(r, cur[r].attempts, FALSE)
       ELSE /\ Finally(r, cur[r].attempts, FALSE)
            /\ UNCHANGED status
    /\ UNCHANGED <<storeUp, counter, redisConn, redis_available, jobs, enq>>

\* The handler returns: status succeeded is to be written next.
HandlerReturns(r) ==
    /\ UNCHANGED <<schedVars, rateVars, draining, lastReply>>
    /\ pc[r] = "handler"
    /\ pc' = [pc EXCEPT ![r] = "set_succeeded"]
    /\ UNCHANGED <<storeUp, status, counter, redisConn, redis_available, jobs, task,
                   enq, cur, running_incremented, invocations, decAttempt, held>>

\* `except Exception`: job.attempts += 1, then status failed on exhaustion, or
\* the backoff sleep.
\* The handler's exception leaving _run_job: the finally block runs and
\* _worker, which catches nothing but the cancellation, ends.
Failed_Escapes(r) == Finally(r, cur[r].attempts, TRUE)

Failed(r) ==
    /\ cur' = [cur EXCEPT ![r].attempts = @ + 1]
    /\ pc' = [pc EXCEPT ![r] =
               IF Exhausted(cur[r].attempts + 1, cur[r].max_attempts)
               THEN "set_failed" ELSE "backoff"]
    /\ UNCHANGED <<running_incremented, invocations, decAttempt, held, task>>

\* The handler raises.
HandlerRaises(r) ==
    /\ UNCHANGED <<schedVars, rateVars, draining, lastReply>>
    /\ pc[r] = "handler"
    /\ Failed(r)
    /\ UNCHANGED <<storeUp, status, counter, redisConn, redis_available, jobs, enq>>

\* The write of status succeeded is inside the try of the retry loop: its
\* store error is caught by `except Exception` like a failure of the handler.
SetSucceeded(r) ==
    /\ UNCHANGED <<schedVars, rateVars, draining, lastReply>>
    /\ pc[r] = "set_succeeded"
    /\ IF storeUp
       THEN /\ status' = [status EXCEPT ![cur[r].key] = SUCCEEDED]
            /\ Finally(r, cur[r].attempts, FALSE)
       ELSE /\ Failed(r)
            /\ UNCHANGED status
    /\ UNCHANGED <<storeUp, counter, redisConn, redis_available, jobs, enq>>

\* Attempts exhausted: status failed is written; a store error goes to the
\* outer except.  Either way _run_job is over.
SetFailed(r) ==
    /\ UNCHANGED <<schedVars, rateVars, draining, lastReply>>
    /\ pc[r] = "set_failed"
    /\ status' = IF storeUp THEN [status EXCEPT ![cur[r].key] = FAILED] ELSE status
    /\ Finally(r, cur[r].attempts, FALSE)
    /\ UNCHANGED <<storeUp, counter, redisConn, redis_available, jobs, enq>>

\* The backoff sleep ends and the loop condition is tested again.
Backoff(r) ==
    /\ UNCHANGED <<schedVars, rateVars, draining, lastReply>>
    /\ pc[r] = "backoff"
    /\ IF MayAttempt(cur[r])
       THEN Invoke(r, cur[r].attempts)
       ELSE Finally(r, cur[r].attempts, FALSE)
    /\ UNCHANGED <<storeUp, status, counter, redisConn, redis_available, jobs, enq>>

\* One round of the decrement loop: redis.decr, and on a store error the
\* sleep and the next round, up to max_retries rounds.
Decr(r) ==
    /\ UNCHANGED <<schedVars, rateVars, draining, lastReply>>
    /\ pc[r] = "decr"
    /\ IF storeUp
       THEN /\ counter' = counter - 1
            /\ EndRunJob(r, FALSE)
       ELSE /\ UNCHANGED counter
            /\ IF decAttempt[r] < max_retries - 1
               THEN /\ decAttempt' = [decAttempt EXCEPT ![r] = @ + 1]
                    /\ UNCHANGED <<pc, cur, running_incremented, invocations, held, task>>
               ELSE EndRunJob(r, FALSE)
    /\ UNCHANGED <<storeUp, status, redisConn, redis_available, jobs, enq>>

\* stop(): the worker task is cancelled and CancelledError is raised at the
\* await it is suspended in.  Before the finally block it runs the finally
\* block; inside the finally block (the decr call or its retry sleep) it
\* leaves the block at once.
Stop(r) ==
    /\ UNCHANGED <<schedVars, rateVars, draining, lastReply>>
    /\ task[r] # "none"
    /\ IF pc[r] \in {"idle", "decr"}
       THEN EndRunJob(r, TRUE)
       ELSE Finally(r, cur[r].attempts, TRUE)
    /\ UNCHANGED <<storeUp, status, counter, redisConn, redis_available, jobs, enq>>

\* ------------------------------------------------------------------ drain
\* `while self._jobs and self._task and not self._task.done()` of drain().
DrainWaits(r) == jobs[r] # <<>> /\ task[r] # "none"

\* drain() is called.
DrainCall(r) ==
    /\ ~draining[r]
    /\ draining' = [draining EXCEPT ![r] = TRUE]
    /\ UNCHANGED <<storeUp, schedVars, rateVars, status, counter, redisConn,
                   redis_available, jobs, task, enq, pc, cur, running_incremented,
                   invocations, decAttempt, held, lastReply>>

\* drain() finds its loop condition false, after any number of 0.1 s sleeps,
\* and returns.
DrainReturns(r) ==
    /\ draining[r]
    /\ ~DrainWaits(r)
    /\ draining' = [draining EXCEPT ![r] = FALSE]
    /\ UNCHANGED <<storeUp, schedVars, rateVars, status, counter, redisConn,
                   redis_available, jobs, task, enq, pc, cur, running_incremented,
                   invocations, decAttempt, held, lastReply>>

\* ------------------------------------------------------------ environment
StoreFails ==
    /\ UNCHANGED <<schedVars, rateVars, draining, lastReply>>
    /\ storeUp
    /\ storeUp' = FALSE
    /\ UNCHANGED <<status, counter, redisConn, redis_available, jobs, task, enq, pc,
                   cur, running_incremented, invocations, decAttempt, held>>

StoreRecovers ==
    /\ UNCHANGED <<schedVars, rateVars, draining, lastReply>>
    /\ ~storeUp
    /\ storeUp' = TRUE
    /\ UNCHANGED <<status, counter, redisConn, redis_available, jobs, task, enq, pc,
                   cur, running_incremented, invocations, decAttempt, held>>

\* The TTL of a status entry lapses (ex=3600 for queued and running, ex=86400
\* for succeeded and failed).
StatusExpires(k) ==
    /\ UNCHANGED <<schedVars, rateVars, draining, lastReply>>
    /\ status[k] # ABSENT
    /\ status' = [status EXCEPT ![k] = ABSENT]
    /\ UNCHANGED <<storeUp, counter, redisConn, redis_available, jobs, task, enq, pc,
                   cur, running_incremented, invocations, decAttempt, held>>

\* The runners that hold a job of key k, pending in self._jobs or in _run_job.
Holding(k) ==
    {r \in Runners :
        \/ cur[r].key = k
        \/ \E n \in 1..Len(jobs[r]) : jobs[r][n].key = k}

\* The TTL of a status entry lapses after its job: the entry is succeeded or
\* failed (ex=86400), or no runner holds a job of the key any more.
StatusExpiresAfterJob(k) ==
    /\ status[k] \in {SUCCEEDED, FAILED} \/ Holding(k) = {}
    /\ StatusExpires(k)

\* ------------------------------------------------------------------ lock
\* try_acquire_lock without NX: the key is written whether it exists or not.
try_acquire_lock_NoNx(lock_ttl, ttl_seconds) ==
    [acquired |-> TRUE, ttl |-> ttl_seconds]

\* RedisClient.try_acquire_lock: SET key "1" NX EX ttl_seconds.
try_acquire_lock(lock_ttl, ttl_seconds) ==
    IF lock_ttl = 0
    THEN [acquired |-> TRUE, ttl |-> ttl_seconds]
    ELSE [acquired |-> FALSE, ttl |-> lock_ttl]

\* RedisClient.extend_lock: EXPIRE key ttl_seconds, true when the key exists.
extend_lock(lock_ttl, ttl_seconds) ==
    IF lock_ttl > 0
    THEN [extended |-> TRUE, ttl |-> ttl_seconds]
    ELSE [extended |-> FALSE, ttl |-> lock_ttl]

\* release_lock leaving the key in place.
release_lock_Keep(lock_ttl) == lock_ttl

\* RedisClient.release_lock: DEL key.
release_lock(lock_ttl) == 0

\* DistributedLock.acquire(): one non-blocking attempt.
LockAcquire(lock_ttl) == try_acquire_lock(lock_ttl, SCHEDULER_LOCK_TTL)

\* DistributedLock.extend(): false when the lock no longer exists or the store
\* is unreachable.
LockExtend(lock_ttl) ==
    IF storeUp
    THEN extend_lock(lock_ttl, SCHEDULER_LOCK_TTL)
    ELSE [extended |-> FALSE, ttl |-> lock_ttl]

\* DistributedLock.release(): the store delete of a possibly absent key.
LockRelease(lock_ttl) == release_lock(lock_ttl)

\* The processes below call RedisClient's lock primitives on one key, each
\* through its own client; a call with the store unreachable raises from
\* _ensure_connected or from the command and changes nothing.

\* try_acquire_lock(key, ttl_seconds) called by process p.
TryAcquireLock(p) ==
    /\ storeUp
    /\ LET a == try_acquire_lock(lockTtl, SCHEDULER_LOCK_TTL)
       IN /\ lockTtl' = a.ttl
          /\ holder' = IF a.acquired THEN p ELSE holder
          /\ everAcquired' = IF a.acquired THEN everAcquired \cup {p} ELSE everAcquired
          /\ lastOp' = [proc |-> p, op |-> "try_acquire_lock", result |-> a.acquired]
    /\ UNCHANGED <<storeUp, runnerVars, rateVars, lastRun, grants, schedConn, schedTask, extTask,
                   orphans, orphanDue, schedLock, schedPc, extDue, cycled, startResult,
                   spawned, raced>>

\* extend_lock(key, ttl_seconds) called by process p.
ExtendLock(p) ==
    /\ storeUp
    /\ LET e == extend_lock(lockTtl, SCHEDULER_LOCK_TTL)
       IN /\ lockTtl' = e.ttl
          /\ lastOp' = [proc |-> p, op |-> "extend_lock", result |-> e.extended]
    /\ UNCHANGED <<storeUp, runnerVars, rateVars, lastRun, holder, everAcquired, grants, schedConn,
                   schedTask, extTask, orphans, orphanDue, schedLock, schedPc, extDue,
                   cycled, startResult, spawned, raced>>

\* release_lock(key) called by process p; it returns None.
ReleaseLock(p) ==
    /\ storeUp
    /\ lockTtl' = release_lock(lockTtl)
    /\ holder' = IF lockTtl' = 0 THEN 0 ELSE holder
    /\ lastOp' = [proc |-> p, op |-> "release_lock", result |-> FALSE]
    /\ UNCHANGED <<storeUp, runnerVars, rateVars, lastRun, everAcquired, grants, schedConn, schedTask,
                   extTask, orphans, orphanDue, schedLock, schedPc, extDue, cycled,
                   startResult, spawned, raced>>

\* SCHEDULER_LOCK_TTL / 2 seconds pass on the key of these processes: it
\* loses that much of its TTL and is gone at 0.
LockTick ==
    /\ lockTtl > 0
    /\ lockTtl' = IF lockTtl > ExtendPeriod THEN lockTtl - ExtendPeriod ELSE 0
    /\ holder' = IF lockTtl' = 0 THEN 0 ELSE holder
    /\ UNCHANGED <<storeUp, runnerVars, rateVars, lastRun, everAcquired, lastOp, grants, schedConn,
                   schedTask, extTask, orphans, orphanDue, schedLock, schedPc, extDue,
                   cycled, startResult, spawned, raced>>

\* ---------------------------------------------------------- rate limiter
\* RedisClient.get_counter: the value, 0 for a missing key.
get_counter(count) == count

\* increment_counter with a plain EXPIRE: every increment sets the TTL anew.
increment_counter_Renew(count, ttl, ttl_seconds) ==
    [value |-> count + 1, ttl |-> ttl_seconds]

\* RedisClient.increment_counter: INCR and EXPIRE ... NX in one MULTI/EXEC;
\* the expiry is set when the key has none.
increment_counter(count, ttl, ttl_seconds) ==
    [value |-> count + 1, ttl |-> IF ttl = 0 THEN ttl_seconds ELSE ttl]

\* RedisClient.delete_counter: DEL key.
delete_counter(count, ttl) == [value |-> 0, ttl |-> 0]

\* is_limited with `>` for its comparison.
is_limited_Above(current, max_attempts) == current > max_attempts

\* RedisRateLimiter.is_limited: `return current >= self.max_attempts`.
is_limited(current, max_attempts) == current >= max_attempts

\* What record_failure does to the store on key k.
CounterIncremented(k) ==
    LET n == increment_counter(rlCount[k], rlTtl[k], AUTH_RATE_LIMIT_WINDOW_SECONDS)
    IN /\ rlCount' = [rlCount EXCEPT ![k] = n.value]
       /\ rlTtl' = [rlTtl EXCEPT ![k] = n.ttl]
       /\ winFails' = [winFails EXCEPT ![k] = @ + 1]
       /\ UNCHANGED winAge

\* What reset does to the store on key k.
CounterDeleted(k) ==
    LET n == delete_counter(rlCount[k], rlTtl[k])
    IN /\ rlCount' = [rlCount EXCEPT ![k] = n.value]
       /\ rlTtl' = [rlTtl EXCEPT ![k] = n.ttl]
       /\ winFails' = [winFails EXCEPT ![k] = 0]
       /\ winAge' = [winAge EXCEPT ![k] = 0]

\* auth_rate_limiter.is_limited(key), the store reachable.
IsLimited(k) ==
    /\ storeUp
    /\ lastCall' = [op |-> "is_limited", key |-> k,
                    result |-> is_limited(get_counter(rlCount[k]),
                                          AUTH_RATE_LIMIT_MAX_ATTEMPTS)]
    /\ UNCHANGED <<storeUp, runnerVars, schedVars, rlCount, rlTtl, winFails, winAge,
                   loginKey, loginResult>>

\* auth_rate_limiter.record_failure(key), the store reachable; it returns None.
RecordFailure(k) ==
    /\ storeUp
    /\ rlCount[k] < MaxCount
    /\ CounterIncremented(k)
    /\ lastCall' = [op |-> "record_failure", key |-> k, result |-> FALSE]
    /\ UNCHANGED <<storeUp, runnerVars, schedVars, loginKey, loginResult>>

\* auth_rate_limiter.reset(key), the store reachable; it returns None.
Reset(k) ==
    /\ storeUp
    /\ CounterDeleted(k)
    /\ lastCall' = [op |-> "reset", key |-> k, result |-> FALSE]
    /\ UNCHANGED <<storeUp, runnerVars, schedVars, loginKey, loginResult>>

\* Half a window passes: every counter key loses that much of its TTL and is
\* gone at 0; a window that began AUTH_RATE_LIMIT_WINDOW_SECONDS ago is over.
WindowTick ==
    /\ \E k \in RateKeys : rlCount[k] > 0 \/ winFails[k] > 0
    /\ rlTtl' = [k \in RateKeys |->
                   IF rlTtl[k] > WindowPeriod THEN rlTtl[k] - WindowPeriod ELSE 0]
    /\ rlCount' = [k \in RateKeys |->
                     IF 0 < rlTtl[k] /\ rlTtl[k] <= WindowPeriod THEN 0 ELSE rlCount[k]]
    /\ winFails' = [k \in RateKeys |->
                      IF winFails[k] > 0
                         /\ winAge[k] + WindowPeriod >= AUTH_RATE_LIMIT_WINDOW_SECONDS
                      THEN 0 ELSE winFails[k]]
    /\ winAge' = [k \in RateKeys |->
                    IF winFails'[k] > 0 THEN winAge[k] + WindowPeriod ELSE 0]
    /\ UNCHANGED <<storeUp, runnerVars, schedVars, lastCall, loginKey, loginResult>>

\* The TTL of one counter key runs out.
CounterExpires(k) ==
    /\ rlCount[k] > 0
    /\ rlCount' = [rlCount EXCEPT ![k] = 0]
    /\ rlTtl' = [rlTtl EXCEPT ![k] = 0]
    /\ winFails' = [winFails EXCEPT ![k] = 0]
    /\ winAge' = [winAge EXCEPT ![k] = 0]
    /\ UNCHANGED <<storeUp, runnerVars, schedVars, lastCall, loginKey, loginResult>>

\* ------------------------------------------------------------------ login
\* check_login_rate_limit keeping the email as typed.
check_login_rate_limit_AsTyped(email, client_ip) == MakeKey("login", email, client_ip)

\* The key check_login_rate_limit derives and returns.
check_login_rate_limit(email, client_ip) == LoginKey(email, client_ip)

\* login_user up to the credential check: check_login_rate_limit derives the
\* key and asks the limiter.  A limited key raises the 429 AppError; a store
\* error of get_counter is no RateLimitExceededError and leaves login_user.
LoginCall(c, email, client_ip) ==
    /\ loginResult[c] # "pending"
    /\ LET key == check_login_rate_limit(email, client_ip)
       IN IF ~storeUp
          THEN /\ loginResult' = [loginResult EXCEPT ![c] = "store_error"]
               /\ UNCHANGED loginKey
          ELSE IF is_limited(get_counter(rlCount[key]), AUTH_RATE_LIMIT_MAX_ATTEMPTS)
          THEN /\ loginResult' = [loginResult EXCEPT ![c] = "rate_limited"]
               /\ UNCHANGED loginKey
          ELSE /\ loginResult' = [loginResult EXCEPT ![c] = "pending"]
               /\ loginKey' = [loginKey EXCEPT ![c] = key]
    /\ UNCHANGED <<storeUp, runnerVars, schedVars, rlCount, rlTtl, winFails, winAge,
                   lastCall>>

\* _authenticate_user raises AuthError (or PermissionError): the failure is
\* recorded, the session rolled back and the error raised again.  A store
\* error of record_login_failure leaves the except block in its place.
AuthFails(c) ==
    /\ loginResult[c] = "pending"
    /\ loginKey' = [loginKey EXCEPT ![c] = NoKey]
    /\ IF storeUp
       THEN /\ rlCount[loginKey[c]] < MaxCount
            /\ CounterIncremented(loginKey[c])
            /\ loginResult' = [loginResult EXCEPT ![c] = "auth_error"]
       ELSE /\ loginResult' = [loginResult EXCEPT ![c] = "store_error"]
            /\ UNCHANGED <<rlCount, rlTtl, winFails, winAge>>
    /\ UNCHANGED <<storeUp, runnerVars, schedVars, lastCall>>

\* _authenticate_user returns the tokens: the limit is reset and the tokens
\* returned.  A store error of reset_login_limit leaves login_user.
AuthSucceeds(c) ==
    /\ loginResult[c] = "pending"
    /\ loginKey' = [loginKey EXCEPT ![c] = NoKey]
    /\ IF storeUp
       THEN /\ CounterDeleted(loginKey[c])
            /\ loginResult' = [loginResult EXCEPT ![c] = "tokens"]
       ELSE /\ loginResult' = [loginResult EXCEPT ![c] = "store_error"]
            /\ UNCHANGED <<rlCount, rlTtl, winFails, winAge>>
    /\ UNCHANGED <<storeUp, runnerVars, schedVars, lastCall>>

\* _authenticate_user raises another AppError or Exception: rollback, raise.
AuthRaises(c) ==
    /\ loginResult[c] = "pending"
    /\ loginKey' = [loginKey EXCEPT ![c] = NoKey]
    /\ loginResult' = [loginResult EXCEPT ![c] = "error"]
    /\ UNCHANGED <<storeUp, runnerVars, schedVars, rlCount, rlTtl, winFails, winAge,
                   lastCall>>

\* ------------------------------------------------------------- scheduler
\* `if self._task and not self._task.done(): return` of start().
AlreadyRunning(i) == schedTask[i] = "active"

\* start() creating its tasks whatever acquire() returned.
SpawnsTasks_Always(acquired) == TRUE

\* `if await self._lock.acquire():` of start().
SpawnsTasks(acquired) == acquired

\* start() up to its acquire: the running check, _ensure_redis, and the
\* DistributedLock object.  A failed first ping is caught and start() returns.
StartCall(i) ==
    /\ schedPc[i] = "idle"
    /\ ~AlreadyRunning(i)
    /\ extTask[i] = "active" => orphans[i] < MaxOrphans
    /\ schedConn' = [schedConn EXCEPT ![i] = "set"]
    /\ IF schedConn[i] = "none" /\ ~storeUp
       THEN UNCHANGED <<schedLock, schedPc, startResult, spawned, cycled, raced>>
       ELSE /\ schedLock' = [schedLock EXCEPT ![i] = TRUE]
            /\ schedPc' = [schedPc EXCEPT ![i] = "acquire"]
            /\ startResult' = [startResult EXCEPT ![i] = "pending"]
            /\ spawned' = [spawned EXCEPT ![i] = 0]
            /\ cycled' = [cycled EXCEPT ![i] = FALSE]
            /\ raced' = (/\ lockTtl = 0
                         /\ storeUp
                         /\ \A j \in Scheds \ {i} : schedPc[j] = "acquire")
    /\ UNCHANGED <<storeUp, runnerVars, rateVars, lockCallVars, lastRun, lockTtl, grants, schedTask, extTask, orphans,
                   orphanDue, extDue>>

\* start() from its acquire on: with the lock, the main loop and the
\* extension loop are created; without it, or on a store error, nothing is.
\* An extension loop that _lock_extend_task still named keeps running.
StartAcquire(i) ==
    /\ schedPc[i] = "acquire"
    /\ schedPc' = [schedPc EXCEPT ![i] = "idle"]
    /\ IF storeUp
       THEN LET a == LockAcquire(lockTtl)
            IN /\ lockTtl' = a.ttl
               /\ grants' = IF a.acquired THEN grants + 1 ELSE grants
               /\ startResult' = [startResult EXCEPT
                                    ![i] = IF a.acquired THEN "acquired" ELSE "refused"]
               /\ IF SpawnsTasks(a.acquired)
                  THEN /\ schedTask' = [schedTask EXCEPT ![i] = "active"]
                       /\ extTask' = [extTask EXCEPT ![i] = "active"]
                       /\ extDue' = [extDue EXCEPT ![i] = FALSE]
                       /\ spawned' = [spawned EXCEPT ![i] = 2]
                       /\ IF extTask[i] = "active"
                          THEN /\ orphans' = [orphans EXCEPT ![i] = @ + 1]
                               /\ orphanDue' = [orphanDue EXCEPT
                                                  ![i] = IF extDue[i] THEN @ + 1 ELSE @]
                          ELSE UNCHANGED <<orphans, orphanDue>>
                  ELSE UNCHANGED <<schedTask, extTask, extDue, spawned, orphans, orphanDue>>
       ELSE /\ startResult' = [startResult EXCEPT ![i] = "error"]
            /\ UNCHANGED <<lockTtl, grants, schedTask, extTask, extDue, spawned, orphans,
                           orphanDue>>
    /\ UNCHANGED <<storeUp, runnerVars, rateVars, lockCallVars, lastRun, schedConn, schedLock, cycled, raced>>

\* _loop: one update cycle (run_once), then the sleep of the interval.
LoopCycle(i) ==
    /\ schedTask[i] = "active"
    /\ ~cycled[i]
    /\ cycled' = [cycled EXCEPT ![i] = TRUE]
    /\ UNCHANGED <<storeUp, runnerVars, rateVars, lockCallVars, lastRun, lockTtl, grants, schedConn, schedTask, extTask,
                   orphans, orphanDue, schedLock, schedPc, extDue, startResult, spawned,
                   raced>>

\* run_once raises inside _loop: the main task ends with the exception.
LoopRaises(i) ==
    /\ schedTask[i] = "active"
    /\ schedTask' = [schedTask EXCEPT ![i] = "failed"]
    /\ UNCHANGED <<storeUp, runnerVars, rateVars, lockCallVars, lastRun, lockTtl, grants, schedConn, extTask, orphans,
                   orphanDue, schedLock, schedPc, extDue, cycled, startResult, spawned,
                   raced>>

\* The extension loop ending without the cancel of the main task.
CancelMain_Never(state) == state

\* `if self._task and not self._task.done(): self._task.cancel()` of
\* _extend_lock_loop.
CancelMain(state) == IF state = "active" THEN "done" ELSE state

\* _extend_lock_loop after its sleep: the lock is extended, or the main task
\* is cancelled and the loop ends.
ExtendTick(i) ==
    /\ extTask[i] = "active"
    /\ extDue[i]
    /\ extDue' = [extDue EXCEPT ![i] = FALSE]
    /\ LET e == LockExtend(lockTtl)
       IN IF e.extended
          THEN /\ lockTtl' = e.ttl
               /\ UNCHANGED <<schedTask, extTask>>
          ELSE /\ schedTask' = [schedTask EXCEPT ![i] = CancelMain(@)]
               /\ extTask' = [extTask EXCEPT ![i] = "done"]
               /\ UNCHANGED lockTtl
    /\ UNCHANGED <<storeUp, runnerVars, rateVars, lockCallVars, lastRun, grants, schedConn, orphans, orphanDue, schedLock,
                   schedPc, cycled, startResult, spawned, raced>>

\* The same round of an extension loop that `_lock_extend_task` no longer
\* names: self._lock and self._task are those of the instance now.
OrphanTick(i) ==
    /\ orphanDue[i] > 0
    /\ orphanDue' = [orphanDue EXCEPT ![i] = @ - 1]
    /\ LET e == LockExtend(lockTtl)
       IN IF e.extended
          THEN /\ lockTtl' = e.ttl
               /\ UNCHANGED <<schedTask, orphans>>
          ELSE /\ schedTask' = [schedTask EXCEPT ![i] = CancelMain(@)]
               /\ orphans' = [orphans EXCEPT ![i] = @ - 1]
               /\ UNCHANGED lockTtl
    /\ UNCHANGED <<storeUp, runnerVars, rateVars, lockCallVars, lastRun, grants, schedConn, extTask, extDue, schedLock,
                   schedPc, cycled, startResult, spawned, raced>>

\* stop() up to its release: the extension task is cancelled and awaited;
\* without a main task stop() returns; the main task is cancelled and
\* awaited, and a main task that ended by an exception raises it out of
\* stop(), before `self._task = None`.
StopCall(i) ==
    /\ schedPc[i] = "idle"
    /\ extTask' = [extTask EXCEPT ![i] = "none"]
    /\ extDue' = [extDue EXCEPT ![i] = FALSE]
    /\ raced' = FALSE
    /\ IF schedTask[i] \in {"none", "failed"}
       THEN UNCHANGED <<schedTask, schedPc>>
       ELSE /\ schedTask' = [schedTask EXCEPT ![i] = "none"]
            /\ schedPc' = [schedPc EXCEPT ![i] = IF schedLock[i] THEN "release" ELSE "idle"]
    /\ UNCHANGED <<storeUp, runnerVars, rateVars, lockCallVars, lastRun, lockTtl, grants, schedConn, orphans, orphanDue,
                   schedLock, cycled, startResult, spawned>>

\* stop() from its release on; a store error leaves stop() before
\* `self._lock = None`.
StopRelease(i) ==
    /\ schedPc[i] = "release"
    /\ schedPc' = [schedPc EXCEPT ![i] = "idle"]
    /\ IF storeUp
       THEN /\ lockTtl' = LockRelease(lockTtl)
            /\ grants' = 0
            /\ schedLock' = [schedLock EXCEPT ![i] = FALSE]
       ELSE UNCHANGED <<lockTtl, grants, schedLock>>
    /\ UNCHANGED <<storeUp, runnerVars, rateVars, lockCallVars, lastRun, schedConn, schedTask, extTask, orphans, orphanDue,
                   extDue, cycled, startResult, spawned, raced>>

\* SCHEDULER_LOCK_TTL / 2 seconds pass: the calls in progress have returned,
\* every extension loop has run its last round, the lock key loses that much
\* of its TTL and every extension loop ends its sleep.
Tick ==
    /\ \A i \in Scheds : /\ schedPc[i] = "idle"
                         /\ ~(extTask[i] = "active" /\ extDue[i])
                         /\ orphanDue[i] = 0
    /\ lockTtl > 0 \/ \E i \in Scheds : extTask[i] = "active" \/ orphans[i] > 0
    /\ lockTtl' = IF lockTtl > ExtendPeriod THEN lockTtl - ExtendPeriod ELSE 0
    /\ grants' = IF lockTtl > ExtendPeriod THEN grants ELSE 0
    /\ extDue' = [i \in Scheds |-> extTask[i] = "active"]
    /\ orphanDue' = orphans
    /\ raced' = FALSE
    /\ UNCHANGED <<storeUp, runnerVars, rateVars, lockCallVars, lastRun, schedConn, schedTask, extTask, orphans, schedLock,
                   schedPc, cycled, startResult, spawned>>

\* run_once returning disabled whenever autoupdate is disabled.
run_once_IgnoreForce(enable_autoupdate, force, interval) ==
    IF ~enable_autoupdate
    THEN [status |-> "disabled", interval_minutes |-> interval, service_runs |-> 0]
    ELSE [status |-> "summary", interval_minutes |-> interval, service_runs |-> 1]

\* run_once: with autoupdate disabled and not forced the status disabled and
\* the interval; otherwise the summary of one service.run(force=True), with
\* the interval.
run_once(enable_autoupdate, force, interval) ==
    IF ~enable_autoupdate /\ ~force
    THEN [status |-> "disabled", interval_minutes |-> interval, service_runs |-> 0]
    ELSE [status |-> "summary", interval_minutes |-> interval, service_runs |-> 1]

\* run_once(force) is called on instance i (a manual trigger), the settings
\* read in its session being enable_autoupdate and interval.
RunOnce(i, enable_autoupdate, force, interval) ==
    /\ LET res == run_once(enable_autoupdate, force, interval)
       IN lastRun' = [inst |-> i, enable_autoupdate |-> enable_autoupdate,
                      force |-> force, interval |-> interval,
                      status |-> res.status,
                      interval_minutes |-> res.interval_minutes,
                      service_runs |-> res.service_runs]
    /\ UNCHANGED <<storeUp, runnerVars, rateVars, lockCallVars, lockTtl, grants, schedConn, schedTask, extTask,
                   orphans, orphanDue, schedLock, schedPc, extDue, cycled, startResult,
                   spawned, raced>>

\* The steps of the worker task of runner r.
WorkerRuns(r) ==
    \/ WorkerPop(r)
    \/ CheckAndIncr(r)
    \/ SetDropped(r)
    \/ SetRunning(r)
    \/ HandlerReturns(r)
    \/ HandlerRaises(r)
    \/ SetSucceeded(r)
    \/ SetFailed(r)
    \/ Backoff(r)
    \/ Decr(r)

\* What the worker tasks and stop() do.
WorkerStep ==
    \/ \E r \in Runners : WorkerPop(r)
    \/ \E r \in Runners : CheckAndIncr(r)
    \/ \E r \in Runners : SetDropped(r)
    \/ \E r \in Runners : SetRunning(r)
    \/ \E r \in Runners : HandlerReturns(r)
    \/ \E r \in Runners : HandlerRaises(r)
    \/ \E r \in Runners : SetSucceeded(r)
    \/ \E r \in Runners : SetFailed(r)
    \/ \E r \in Runners : Backoff(r)
    \/ \E r \in Runners : Decr(r)
    \/ \E r \in Runners : Stop(r)

\* The same, and status entries expiring at any time.
RunnerStep ==
    \/ WorkerStep
    \/ \E k \in Keys : StatusExpires(k)

\* The runners with a store that may become unreachable and come back.
Next ==
    \/ \E r \in Runners, k \in Keys, c \in Criticalities : Enqueue(r, k, c)
    \/ RunnerStep
    \/ StoreFails
    \/ StoreRecovers

Spec == Init /\ [][Next]_vars

\* The runners with a store that stays reachable.
NextReliable ==
    \/ \E r \in Runners, k \in Keys, c \in Criticalities : Enqueue(r, k, c)
    \/ RunnerStep

ReliableSpec == Init /\ [][NextReliable]_vars

\* The runners with enqueue split at its awaits, the store reachable.
NextRace ==
    \/ \E r \in Runners, k \in Keys, c \in Criticalities : EnqueueGet(r, k, c)
    \/ \E r \in Runners : EnqueueSetNx(r)
    \/ RunnerStep

RaceSpec == Init /\ [][NextRace]_vars

\* The runners and their callers waiting in drain(), the store reachable.
NextDrain ==
    \/ \E r \in Runners, k \in Keys, c \in Criticalities : Enqueue(r, k, c)
    \/ RunnerStep
    \/ \E r \in Runners : DrainCall(r)
    \/ \E r \in Runners : DrainReturns(r)

DrainSpec == Init /\ [][NextDrain]_vars

\* The runners with a store that may become unreachable, where no status
\* entry expires under a job that is pending or in flight.
NextNoLapse ==
    \/ \E r \in Runners, k \in Keys, c \in Criticalities : Enqueue(r, k, c)
    \/ WorkerStep
    \/ \E k \in Keys : StatusExpiresAfterJob(k)
    \/ StoreFails
    \/ StoreRecovers

NoLapseSpec == Init /\ [][NextNoLapse]_vars

\* The runners with jobs of any max_attempts, the store reachable.
NextAnyJob ==
    \/ \E r \in Runners, job \in JobValues : EnqueueAny(r, job)
    \/ RunnerStep

AnyJobSpec == Init /\ [][NextAnyJob]_vars

\* The fleet of scheduler instances and the store.
NextSched ==
    \/ \E i \in Scheds : StartCall(i)
    \/ \E i \in Scheds : StartAcquire(i)
    \/ \E i \in Scheds : LoopCycle(i)
    \/ \E i \in Scheds : LoopRaises(i)
    \/ \E i \in Scheds : ExtendTick(i)
    \/ \E i \in Scheds : OrphanTick(i)
    \/ \E i \in Scheds : StopCall(i)
    \/ \E i \in Scheds : StopRelease(i)
    \/ Tick
    \/ StoreFails
    \/ StoreRecovers

SchedSpec == Init /\ [][NextSched]_vars

\* The lock primitives called directly by the processes, and time.
NextLock ==
    \/ \E p \in Procs : TryAcquireLock(p)
    \/ \E p \in Procs : ExtendLock(p)
    \/ \E p \in Procs : ReleaseLock(p)
    \/ LockTick

LockSpec == Init /\ [][NextLock]_vars

\* The keys the limiter is called on directly: one identity from two addresses.
LimiterKeys == {LoginKey("user@example.com", ip) : ip \in Ips}

\* The limiter's operations called directly, and time.
NextLimiter ==
    \/ \E k \in LimiterKeys : IsLimited(k)
    \/ \E k \in LimiterKeys : RecordFailure(k)
    \/ \E k \in LimiterKeys : Reset(k)
    \/ WindowTick

LimiterSpec == Init /\ [][NextLimiter]_vars

\* The logins attempted: one address in two spellings, the same address from
\* a second client, and another address.
LoginInputs ==
    {<<"User@example.com", "1.2.3.1">>, <<"user@example.com", "1.2.3.1">>,
     <<"user@example.com", "1.2.3.2">>, <<"other@example.com", "1.2.3.1">>}

\* The refresh key of the same identifier and client as a login key.
RefreshKeys == {RefreshKey("user@example.com", "1.2.3.1")}

\* Concurrent login_user calls, refresh failures recorded on the side, counter
\* keys expiring and the store coming and going.
NextLogin ==
    \/ \E c \in Callers, in \in LoginInputs : LoginCall(c, in[1], in[2])
    \/ \E c \in Callers : AuthFails(c)
    \/ \E c \in Callers : AuthSucceeds(c)
    \/ \E c \in Callers : AuthRaises(c)
    \/ \E k \in RefreshKeys : RecordFailure(k)
    \/ \E k \in RateKeys : CounterExpires(k)
    \/ StoreFails
    \/ StoreRecovers

LoginSpec == Init /\ [][NextLogin]_vars

\* The runners with status_for called on them and enqueue called on a runner
\* whose flag is false; status entries expire after their jobs, stop() is not
\* called.
NextLatch ==
    \/ \E r \in Runners, k \in Keys, c \in Criticalities : Enqueue(r, k, c)
    \/ \E r \in Runners, k \in Keys, c \in Criticalities : EnqueueRefused(r, k, c)
    \/ \E r \in Runners, k \in Keys : StatusFor(r, k)
    \/ \E r \in Runners : WorkerRuns(r)
    \/ \E k \in Keys : StatusExpiresAfterJob(k)
    \/ StoreFails
    \/ StoreRecovers

LatchSpec == Init /\ [][NextLatch]_vars

\* One JobRunner with jobs of several keys: enqueue, the worker, stop() and
\* status entries expiring, the store reachable.
NextFifo ==
    \/ \E k \in OrderKeys, c \in Criticalities : Enqueue(1, k, c)
    \/ WorkerRuns(1)
    \/ Stop(1)
    \/ \E k \in OrderKeys : StatusExpires(k)

FifoSpec == Init /\ [][NextFifo]_vars

\* One JobRunner that is never stopped, its store failing and recovering.
\* The event loop keeps scheduling the worker task, and a handler returns or
\* raises in the end: the worker's steps are weakly fair.
NextSurvive ==
    \/ \E k \in OrderKeys, c \in Criticalities : Enqueue(1, k, c)
    \/ WorkerRuns(1)
    \/ \E k \in OrderKeys : StatusExpires(k)
    \/ StoreFails
    \/ StoreRecovers

SurviveSpec == Init /\ [][NextSurvive]_vars /\ WF_vars(WorkerRuns(1))

\* The fleet, with run_once called from outside the main loop.
NextRunOnce ==
    \/ NextSched
    \/ \E i \in Scheds, e \in BOOLEAN, f \in BOOLEAN, m \in Intervals : RunOnce(i, e, f, m)

RunOnceSpec == Init /\ [][NextRunOnce]_vars

\* ================================================================= claims

\* The runners whose worker is inside the handler of a job with key k.
Executing(k) == {r \in Runners : pc[r] = "handler" /\ cur[r].key = k}

\* The runners whose current job passed the check-and-increment and has not
\* finished its cleanup.
Admitted == {r \in Runners : cur[r] # NoJob /\ running_incremented[r]}

\* The worker of r takes a step of _run_job that is not a cancellation.
Advances(r) == pc'[r] # pc[r] /\ task'[r] = task[r]

\* C1: dedup.  The handler of one job key is never executing in two places at
\* the same time, also when the TTL of the queued/running status entry lapses
\* while the first handler is still executing.
C1_HandlerNeverTwice == \A k \in Keys : Cardinality(Executing(k)) <= 1

\* C2: admission ceiling.  The non-critical jobs that passed the atomic
\* check-and-increment and have not finished their cleanup are at most
\* MAX_RUNNING_JOBS, and counter:global_jobs never exceeds MAX_RUNNING_JOBS.
C2_AdmissionCeiling ==
    /\ Cardinality(Admitted) <= MAX_RUNNING_JOBS
    /\ counter <= MAX_RUNNING_JOBS

\* A job is refused at the ceiling while another runner holds the slot.
C2_Witness ==
    \E r1, r2 \in Runners :
        /\ r1 # r2
        /\ r1 \in Admitted
        /\ pc[r2] = "set_dropped"
        /\ counter = MAX_RUNNING_JOBS

\* C3: critical bypass.  A critical job is never at the admission check, the
\* drop or the decrement, holds no slot of the counter, and with the store
\* reachable its write of status running is followed by the handler call with
\* the counter untouched, whatever the counter value.
C3_CriticalNoCounter ==
    \A r \in Runners :
        cur[r].criticality = "critical" =>
            /\ pc[r] \notin {"check_incr", "set_dropped", "decr"}
            /\ ~running_incremented[r]
            /\ held[r] = 0

C3_CriticalStarts ==
    \A r \in Runners :
        (/\ cur[r].criticality = "critical"
         /\ pc[r] = "set_running"
         /\ storeUp
         /\ Advances(r))
        => /\ status'[cur[r].key] = RUNNING
           /\ pc'[r] = "handler"
           /\ invocations'[r] = 1
           /\ counter' = counter

C3_CriticalBypass == []C3_CriticalNoCounter /\ [][C3_CriticalStarts]_vars

\* A critical job is inside its handler while the counter is at the ceiling.
C3_Witness ==
    \E r \in Runners :
        /\ cur[r].criticality = "critical"
        /\ pc[r] = "handler"
        /\ counter = MAX_RUNNING_JOBS

\* C4: a dequeued critical job proceeds to its handler even when the store is
\* unreachable at the write of status running.
C4_CriticalRunsWithoutStore ==
    [][\A r \in Runners :
          (/\ cur[r].criticality = "critical"
           /\ pc[r] = "set_running"
           /\ ~storeUp
           /\ Advances(r))
          => pc'[r] = "handler"]_vars

\* C5: no unpaired decrement.  A job is in the decrement loop only when its own
\* check-and-increment succeeded and it has not decremented yet; critical,
\* dropped and rejected jobs never are; every decrement takes one from the
\* counter and ends the job's handling; the counter never goes below zero.
C5_DecrOnlyAfterIncr ==
    /\ counter >= 0
    /\ Cardinality({r \in Runners : held[r] = 1}) <= counter
    /\ \A r \in Runners :
          /\ held[r] \in {0, 1}
          /\ pc[r] = "decr" => held[r] = 1 /\ ChecksBackpressure(cur[r].criticality)
          /\ pc[r] = "set_dropped" => held[r] = 0

C5_DecrOnce ==
    counter' < counter =>
        \E r \in Runners :
            /\ pc[r] = "decr"
            /\ held[r] = 1
            /\ counter' = counter - 1
            /\ cur'[r] = NoJob

C5_NoUnpairedDecrement == []C5_DecrOnlyAfterIncr /\ [][C5_DecrOnce]_vars

\* An admitted job is retrying its decrement after two store errors.
C5_Witness ==
    \E r \in Runners : pc[r] = "decr" /\ held[r] = 1 /\ decAttempt[r] = max_retries - 1

\* C6: counter balance.  With every decrement attempt succeeding (the store
\* stays reachable), when no non-critical job is in flight the counter is zero.
C6_CounterBalance ==
    (\A r \in Runners : cur[r] = NoJob \/ ~ChecksBackpressure(cur[r].criticality))
        => counter = 0

\* C7: retry outcome, store reachable.  The handler is called at most
\* max_attempts times; a success is the call after job.attempts failures and
\* writes status succeeded; the failure that exhausts the attempts is the
\* max_attempts-th call and writes status failed.
C7_Counts ==
    \A r \in Runners :
        /\ invocations[r] <= cur[r].max_attempts
        /\ pc[r] \in {"handler", "set_succeeded"} => invocations[r] = cur[r].attempts + 1
        /\ pc[r] = "set_failed" =>
              invocations[r] = cur[r].max_attempts /\ cur[r].attempts = cur[r].max_attempts

C7_Outcome ==
    \A r \in Runners :
        /\ (pc[r] = "set_succeeded" /\ Advances(r))
              => status'[cur[r].key] = SUCCEEDED /\ pc'[r] \in {"decr", "idle"}
        /\ (pc[r] = "set_failed" /\ Advances(r))
              => status'[cur[r].key] = FAILED /\ pc'[r] \in {"decr", "idle"}
        /\ (pc[r] = "handler" /\ Advances(r) /\ pc'[r] # "set_succeeded")
              => /\ cur'[r].attempts = cur[r].attempts + 1
                 /\ pc'[r] = IF invocations[r] = cur[r].max_attempts
                             THEN "set_failed" ELSE "backoff"

C7_RetryOutcome == []C7_Counts /\ [][C7_Outcome]_vars

\* The handler failed max_attempts - 1 times and has now returned.
C7_Witness ==
    \E r \in Runners :
        /\ pc[r] = "set_succeeded"
        /\ cur[r].attempts = MaxAttempts - 1
        /\ invocations[r] = MaxAttempts

\* ------------------------------------------------------------- C8 .. C10
\* C8: of the try_acquire_lock calls on one key, concurrent or not, at most
\* one returns true until the key's TTL expires or the lock is released.
C8_AtMostOneGrant == grants <= 1

\* C8: a try_acquire_lock call made while the key exists returns false and
\* leaves the key and its TTL as they were.
C8_RefusedWhileHeld ==
    \A i \in Scheds :
        (schedPc[i] = "acquire" /\ schedPc'[i] = "idle" /\ storeUp /\ lockTtl > 0)
            => (startResult'[i] = "refused" /\ lockTtl' = lockTtl /\ grants' = grants)

\* C8: lock mutual exclusion, both parts.
C8_LockMutualExclusion == []C8_AtMostOneGrant /\ [][C8_RefusedWhileHeld]_vars

\* One instance was granted the lock and another, calling while the key
\* existed, was refused.
C8_Witness ==
    \E i, j \in Scheds :
        /\ startResult[i] = "acquired"
        /\ startResult[j] = "refused"
        /\ lockTtl > 0
        /\ grants = 1

\* C9: at most one instance of the fleet has an active main loop.
C9_SchedulerSingleton == Cardinality({i \in Scheds : schedTask[i] = "active"}) <= 1

\* C10: when every instance was inside start() at once with the lock key
\* free, and each acquire has returned, exactly one instance acquired the lock
\* and created the main-loop and extension tasks; every other one was
\* refused, created no task, has no running main loop and ran no update cycle.
C10_TwoSchedulersStarting ==
    (raced /\ \A i \in Scheds : startResult[i] \in {"acquired", "refused"})
        => \E i \in Scheds :
               /\ startResult[i] = "acquired"
               /\ spawned[i] = 2
               /\ schedTask[i] # "none"
               /\ extTask[i] # "none"
               /\ \A j \in Scheds \ {i} :
                      /\ startResult[j] = "refused"
                      /\ spawned[j] = 0
                      /\ schedTask[j] # "active"
                      /\ ~cycled[j]

\* Both start() calls overlapped on the free key, both have returned, and the
\* winner has run an update cycle.
C10_Witness ==
    /\ raced
    /\ \A i \in Scheds : startResult[i] \in {"acquired", "refused"}
    /\ \E i \in Scheds : startResult[i] = "acquired" /\ cycled[i]

\* ------------------------------------------------------------ C11 .. C20
\* C11: re-enqueue after failure.  enqueue(job) on a key whose status entry is
\* failed, the store reachable, is accepted: the status becomes queued, the
\* job is in the pending set and the worker task exists.
C11_ReenqueueAfterFailure ==
    [][\A r \in Runners, k \in Keys, c \in Criticalities :
          (Enqueue(r, k, c) /\ status[k] = FAILED /\ storeUp)
              => /\ status'[k] = QUEUED
                 /\ \E n \in 1..Len(jobs'[r]) : jobs'[r][n].key = k
                 /\ task'[r] # "none"]_vars

\* C12: denied admission.  A job the check-and-increment refused has had no
\* handler call, holds no slot and has not been marked admitted.
C12_DeniedNeverRan ==
    \A r \in Runners :
        pc[r] = "set_dropped" =>
            /\ invocations[r] = 0
            /\ held[r] = 0
            /\ ~running_incremented[r]
            /\ ChecksBackpressure(cur[r].criticality)

\* C12: the step that denies a job (limit exceeded, or a store error of the
\* admission check) and the step that follows a limit-exceeded answer leave the
\* counter and the pending set as they were, write no status running and end
\* the job's handling without a handler call; the limit-exceeded job gets
\* status failed when its write reaches the store.
C12_DeniedStep ==
    \A r \in Runners :
        /\ (pc[r] = "check_incr" /\ pc'[r] \notin {"check_incr", "set_running"})
              => /\ counter' = counter
                 /\ status' = status
                 /\ jobs' = jobs
                 /\ invocations'[r] = 0
                 /\ pc'[r] = IF storeUp /\ Advances(r) THEN "set_dropped" ELSE "idle"
        /\ (pc[r] = "set_dropped" /\ pc'[r] # "set_dropped")
              => /\ counter' = counter
                 /\ jobs' = jobs
                 /\ invocations'[r] = 0
                 /\ pc'[r] = "idle"
                 /\ cur'[r] = NoJob
                 /\ status' = IF storeUp /\ Advances(r)
                              THEN [status EXCEPT ![cur[r].key] = FAILED]
                              ELSE status

C12_DeniedAdmission == []C12_DeniedNeverRan /\ [][C12_DeniedStep]_vars

\* A best_effort job has been refused at the ceiling, its status still queued,
\* while the job that holds the slot is inside its handler.
C12_Witness ==
    \E r1, r2 \in Runners :
        /\ pc[r1] = "set_dropped"
        /\ cur[r1].criticality = "best_effort"
        /\ status[cur[r1].key] # FAILED
        /\ pc[r2] = "handler"
        /\ running_incremented[r2]

\* C13: drain() completeness.  When drain() returns on a runner whose worker
\* task has not been stopped, the pending set is empty and the worker is not
\* handling a job: every accepted job's handling has ended.
C13_DrainCompleteness ==
    [][\A r \in Runners :
          (draining[r] /\ ~draining'[r] /\ task[r] = "alive")
              => (jobs[r] = <<>> /\ cur[r] = NoJob)]_vars

\* The runners that have a worker task and hold a job of key k, pending or in
\* hand.
Holders(k) ==
    {r \in Runners :
        /\ task[r] # "none"
        /\ \/ cur[r].key = k
           \/ \E n \in 1..Len(jobs[r]) : jobs[r][n].key = k}

\* C14: jobs are not lost.  With the store reachable, a status entry that is
\* queued or running belongs to a job some running worker still holds and will
\* bring to succeeded or failed: no job is left queued or running by a runner
\* that is idle or has been stopped.
C14_NoJobLeftBehind ==
    \A k \in Keys : status[k] \in {QUEUED, RUNNING} => Holders(k) # {}

\* The changes of a status entry along absent -> queued -> running ->
\* succeeded or failed.
Chain == {<<ABSENT, QUEUED>>, <<QUEUED, RUNNING>>, <<RUNNING, SUCCEEDED>>, <<RUNNING, FAILED>>}

\* A runner's write changes the entry of k (an expiry makes it absent).
Written(k) == status'[k] # status[k] /\ status'[k] # ABSENT

ExtensionFails(i) ==
    /\ ExtendTick(i) \/ OrphanTick(i)
    /\ lockTtl = 0 \/ ~storeUp

\* C16: demotion on extension failure.  The step of a failed extension leaves
\* the instance without an active main loop and leaves the lock key, its TTL
\* and the instance's lock object as they were: the lock is not released.
C16_Demotes ==
    \A i \in Scheds :
        ExtensionFails(i) =>
            /\ schedTask'[i] # "active"
            /\ schedTask'[i] = IF schedTask[i] = "active" THEN "done" ELSE schedTask[i]
            /\ lockTtl' = lockTtl
            /\ grants' = grants
            /\ schedLock' = schedLock
            /\ schedPc' = schedPc
            /\ cycled' = cycled

\* C16: an update cycle is run only by a main loop that is active, so a
\* demoted instance runs none until a later start() acquires the lock again.
C16_CyclesOnlyWhileActive ==
    \A i \in Scheds : (cycled'[i] /\ ~cycled[i]) => schedTask[i] = "active"

C16_DemotionOnExtensionFailure == [][C16_Demotes /\ C16_CyclesOnlyWhileActive]_vars

\* An instance that ran a cycle was demoted with the store unreachable: its
\* main loop and extension loop are over and the lock key is still there.
C16_Witness ==
    \E i \in Scheds :
        /\ schedTask[i] = "done"
        /\ extTask[i] = "done"
        /\ cycled[i]
        /\ schedLock[i]
        /\ lockTtl > 0
        /\ ~storeUp

\* C17: stop ordering.  stop() is at its release only with both of the
\* instance's tasks cancelled, awaited and cleared, and a running scheduler
\* has its lock object.
C17_ReleaseAfterTasks ==
    \A i \in Scheds :
        /\ schedPc[i] = "release" => (schedTask[i] = "none" /\ extTask[i] = "none")
        /\ schedTask[i] = "active" => schedLock[i]

\* C17: stop() on a running scheduler ends both tasks and goes on to the
\* release, touching the lock key only there; the release, reaching the
\* store, deletes the key and clears the lock object, so that stop() returns
\* with no task and no lock; an acquire on the key so freed is granted.
C17_StopSteps ==
    \A i \in Scheds :
        /\ (StopCall(i) /\ schedTask[i] = "active")
              => /\ schedTask'[i] = "none"
                 /\ extTask'[i] = "none"
                 /\ schedPc'[i] = "release"
                 /\ lockTtl' = lockTtl
        /\ (StopRelease(i) /\ storeUp)
              => /\ lockTtl' = 0
                 /\ ~schedLock'[i]
                 /\ schedPc'[i] = "idle"
                 /\ schedTask'[i] = "none"
                 /\ extTask'[i] = "none"
        /\ (StartAcquire(i) /\ storeUp /\ lockTtl = 0)
              => /\ startResult'[i] = "acquired"
                 /\ schedTask'[i] = "active"
                 /\ lockTtl' = SCHEDULER_LOCK_TTL

C17_StopOrdering == []C17_ReleaseAfterTasks /\ [][C17_StopSteps]_vars

\* stop() has returned on an instance that held the lock and ran a cycle: it
\* has no task and no lock object, the key is gone, and a peer is in start().
C17_Witness ==
    \E i, j \in Scheds :
        /\ i # j
        /\ startResult[i] = "acquired"
        /\ cycled[i]
        /\ schedPc[i] = "idle"
        /\ schedTask[i] = "none"
        /\ extTask[i] = "none"
        /\ ~schedLock[i]
        /\ lockTtl = 0
        /\ schedPc[j] = "acquire"

\* C18: run_once leaves coordination state alone.  The step of a run_once
\* call changes neither the lock key nor any instance's tasks, lock object or
\* call in progress.
C18_Frame ==
    lastRun' # lastRun =>
        UNCHANGED <<lockTtl, grants, schedTask, extTask, orphans, orphanDue, schedLock,
                    schedPc, extDue, schedConn, startResult, spawned>>

\* C18: with autoupdate disabled and force false the call invoked no service
\* and returned status disabled with the interval; otherwise it invoked the
\* service exactly once.
C18_Result ==
    lastRun # NoRun =>
        IF ~lastRun.enable_autoupdate /\ ~lastRun.force
        THEN /\ lastRun.status = "disabled"
             /\ lastRun.interval_minutes = lastRun.interval
             /\ lastRun.service_runs = 0
        ELSE /\ lastRun.status # "disabled"
             /\ lastRun.service_runs = 1

C18_RunOnceFrame == []C18_Result /\ [][C18_Frame]_vars

\* A forced run_once with autoupdate disabled has run the service on an
\* instance that does not hold the lock, while a peer's main loop is active.
C18_Witness ==
    \E i, j \in Scheds :
        /\ i # j
        /\ lastRun.inst = i
        /\ lastRun.force
        /\ ~lastRun.enable_autoupdate
        /\ lastRun.service_runs = 1
        /\ schedTask[i] = "none"
        /\ schedTask[j] = "active"
        /\ lockTtl > 0

\* C19: extend_lock ownership.  A call of extend_lock returns true only to
\* the process that holds the lock; to any other caller, the lock expired or
\* held by another process, it returns false and the TTL is as it was.
C19_ExtendOwnership ==
    [][\A p \in Procs :
          ExtendLock(p) =>
              /\ lastOp'.result => holder = p
              /\ holder # p => (~lastOp'.result /\ lockTtl' = lockTtl)]_vars

\* C20: release by a non-holder is a no-op.  A call of release_lock by a
\* process that never acquired the lock leaves the key, its TTL and its
\* holder as they were.
C20_ReleaseByNonHolder ==
    [][\A p \in Procs :
          (ReleaseLock(p) /\ p \notin everAcquired) =>
              UNCHANGED <<lockTtl, holder>>]_vars

\* ------------------------------------------------------------ C21 .. C30
\* C21: rate-limiter window.  is_limited(key) returns true exactly when
\* AUTH_RATE_LIMIT_MAX_ATTEMPTS or more record_failure calls were made on the
\* key in its current window, which a reset or the end of the window closes.
C21_LimitedIffFiveInWindow ==
    \A k \in LimiterKeys :
        IsLimited(k) =>
            lastCall'.result = (winFails[k] >= AUTH_RATE_LIMIT_MAX_ATTEMPTS)

\* C21: reset(key) makes is_limited(key) false at once.
C21_ResetClears ==
    \A k \in LimiterKeys :
        Reset(k) =>
            ~is_limited(get_counter(rlCount'[k]), AUTH_RATE_LIMIT_MAX_ATTEMPTS)

C21_RateLimiterWindow ==
    [][C21_LimitedIffFiveInWindow /\ C21_ResetClears]_vars

\* The last limiter call found a key limited, and the counter has since gone
\* with the end of its window, without a reset.
C21_Witness ==
    \E k \in LimiterKeys :
        /\ lastCall = [op |-> "is_limited", key |-> k, result |-> TRUE]
        /\ rlCount[k] = 0
        /\ ~is_limited(get_counter(rlCount[k]), AUTH_RATE_LIMIT_MAX_ATTEMPTS)

\* C26: first-increment-wins window.  Every counter that exists has a TTL,
\* and it runs out AUTH_RATE_LIMIT_WINDOW_SECONDS after the first failure of
\* the window at the latest.
C26_ExpiresWithWindow ==
    \A k \in LimiterKeys :
        rlCount[k] > 0 =>
            /\ rlTtl[k] > 0
            /\ winFails[k] > 0
            /\ rlTtl[k] + winAge[k] <= AUTH_RATE_LIMIT_WINDOW_SECONDS

\* C26: record_failure increments the counter and sets its expiry in one
\* step, and an increment that finds the key with a TTL leaves the TTL as it
\* is.
C26_OnlyFirstSetsExpiry ==
    \A k \in LimiterKeys :
        RecordFailure(k) =>
            /\ rlCount'[k] = rlCount[k] + 1
            /\ rlTtl'[k] = IF rlTtl[k] > 0 THEN rlTtl[k]
                                          ELSE AUTH_RATE_LIMIT_WINDOW_SECONDS

C26_FirstIncrementWins ==
    []C26_ExpiresWithWindow /\ [][C26_OnlyFirstSetsExpiry]_vars

\* A failure was recorded half a window after the first one of its window,
\* and the counter still has only the remaining half.
C26_Witness ==
    \E k \in LimiterKeys :
        /\ lastCall.op = "record_failure"
        /\ lastCall.key = k
        /\ rlCount[k] >= 2
        /\ winAge[k] = WindowPeriod
        /\ rlTtl[k] = AUTH_RATE_LIMIT_WINDOW_SECONDS - WindowPeriod

\* C22: store errors become policy decisions.  No login_user call ends with
\* the store error of a limiter operation: with the store unreachable the
\* call is answered as limited (429) or goes on as not limited.
C22_NoStoreErrorEscapes ==
    \A c \in Callers : loginResult[c] # "store_error"

\* C23: login throttling effects.  A login_user call for (email, client_ip)
\* past its rate check carries the key of scope login, that address and the
\* lower-cased email; a call answered 429 was never at the credential check.
C23_KeyOfCall ==
    \A c \in Callers, in \in LoginInputs :
        LoginCall(c, in[1], in[2]) =>
            /\ loginResult'[c] = "pending" =>
                   loginKey'[c] = [scope |-> "login", ip |-> in[2],
                                   id |-> Sha256(Lower(in[1]))]
            /\ loginResult'[c] = "rate_limited" => loginKey'[c] = NoKey
            /\ UNCHANGED rlCount

\* C23: a call failing with AuthError adds one to the counter of its key, a
\* successful call deletes it, and no step of a call changes another counter.
C23_CounterOfCall ==
    \A c \in Callers :
        /\ (AuthFails(c) /\ loginResult'[c] = "auth_error") =>
               rlCount' = [rlCount EXCEPT ![loginKey[c]] = @ + 1]
        /\ (AuthSucceeds(c) /\ loginResult'[c] = "tokens") =>
               rlCount' = [rlCount EXCEPT ![loginKey[c]] = 0]
        /\ (AuthFails(c) \/ AuthSucceeds(c) \/ AuthRaises(c)) =>
               \A k \in RateKeys \ {loginKey[c]} : rlCount'[k] = rlCount[k]

C23_LoginThrottlingEffects == [][C23_KeyOfCall /\ C23_CounterOfCall]_vars

\* A login failed with AuthError on a key that already counted failures,
\* while the same identity from another address and the refresh scope have
\* counters of their own.
C23_Witness ==
    \E c \in Callers :
        /\ loginResult[c] = "auth_error"
        /\ rlCount[LoginKey("user@example.com", "1.2.3.1")] = 2
        /\ rlCount[LoginKey("user@example.com", "1.2.3.2")] = 1
        /\ rlCount[RefreshKey("user@example.com", "1.2.3.1")] = 3

\* C30: throttling cap under concurrency.  No login counter exceeds
\* AUTH_RATE_LIMIT_MAX_ATTEMPTS, and no call is at its credential check while
\* its key counts that many failures.
C30_CapUnderConcurrency ==
    /\ \A in \in LoginInputs :
           rlCount[LoginKey(in[1], in[2])] <= AUTH_RATE_LIMIT_MAX_ATTEMPTS
    /\ \A c \in Callers :
           loginResult[c] = "pending" =>
               rlCount[loginKey[c]] < AUTH_RATE_LIMIT_MAX_ATTEMPTS

\* C27: no re-execution after success.  Once the handler has returned,
\* _run_job goes to its end: job.attempts is not incremented and neither a
\* retry nor the write of status failed is scheduled, whatever the write of
\* status succeeded does.
C27_NoReexecutionAfterSuccess ==
    [][\A r \in Runners :
          pc[r] = "set_succeeded" =>
              /\ pc'[r] \in {"set_succeeded", "decr", "idle"}
              /\ cur'[r] # NoJob => cur'[r].attempts = cur[r].attempts]_vars

\* C28: unavailability latch.  On a runner whose _redis_available is false
\* the flag stays false, whether the store is reachable again or not; a
\* status_for call answers absent; an enqueue call writes no status, adds
\* nothing to the pending set and starts no worker.
C28_StaysLatched ==
    \A r \in Runners :
        ~redis_available[r] =>
            /\ ~redis_available'[r]
            /\ \A k \in Keys : (StatusFor(r, k) => lastReply'.result = ABSENT)
            /\ \A k \in Keys, c \in Criticalities :
                   (Enqueue(r, k, c) \/ EnqueueRefused(r, k, c)) =>
                       UNCHANGED <<status, jobs, task>>

C28_UnavailabilityLatch == [][C28_StaysLatched]_vars

\* The store is reachable again and holds a status written by another
\* runner, and status_for on the latched runner has answered absent.
C28_Witness ==
    \E r \in Runners, k \in Keys :
        /\ ~redis_available[r]
        /\ storeUp
        /\ status[k] # ABSENT
        /\ lastReply = [runner |-> r, op |-> "status_for", result |-> ABSENT]

\* C25: local FIFO and sequential execution.  A job accepted by enqueue
\* goes behind every job still pending on its runner; the worker takes the
\* oldest pending job, and only when _run_job of the job before has finished.
C25_AcceptedGoesLast ==
    \A r \in Runners, k \in OrderKeys, c \in Criticalities :
        (Enqueue(r, k, c) /\ status[k] # QUEUED /\ status'[k] = QUEUED) =>
            /\ jobs'[r] # <<>>
            /\ jobs'[r][Len(jobs'[r])] = Job(k, c)

C25_OldestStartsAlone ==
    \A r \in Runners :
        /\ WorkerPop(r) => (cur[r] = NoJob /\ cur'[r] = Head(jobs[r]))
        /\ cur[r] # NoJob => Len(jobs'[r]) >= Len(jobs[r])

C25_LocalFifo == [][C25_AcceptedGoesLast /\ C25_OldestStartsAlone]_vars

\* C24: the worker survives handler failure.  A step in which the handler
\* raises, the backoff elapses or status failed is written leaves the worker
\* task alive, and every job pending on the runner, also after another job
\* has failed permanently, is dequeued and handed to _run_job.
C24_TaskStaysAlive ==
    [][\A r \in Runners :
          (HandlerRaises(r) \/ Backoff(r) \/ SetFailed(r)) => task'[r] = "alive"]_vars

C24_PendingIsRun ==
    \A k \in OrderKeys :
        (\E n \in 1..Len(jobs[1]) : jobs[1][n].key = k) ~> (cur[1].key = k)

C24_WorkerSurvives == C24_TaskStaysAlive /\ C24_PendingIsRun

C24_Witness ==
    \E k, j \in OrderKeys :
        /\ k # j
        /\ status[k] = FAILED
        /\ cur[1].key = j
        /\ pc[1] = "handler"
        /\ task[1] = "alive"

\* C29: no zombie lock holder.  The lock is extended by the extension loop
\* of an instance only while the main loop task of that instance is running:
\* once the main task has ended on its own, the instance extends no more.
C29_NoZombieHolder ==
    [][\A i \in Scheds :
          (ExtendTick(i) /\ LockExtend(lockTtl).extended) => schedTask[i] = "active"]_vars

====
